---- MODULE Spec2Model ----
(***************************************************************************)
(* A model of the rollout buffer (core/learners/rollout_storage.py) and of *)
(* the PPO update loop (core/learners/ppo.py).                             *)
(*                                                                         *)
(* Tensors are functions: a tensor of shape (T+1, N, 1) is a function      *)
(* [0..T -> [0..N-1 -> value]].  Floating-point values that take part in    *)
(* arithmetic (rewards, value predictions, returns, gamma, gae_lambda) are *)
(* exact rationals [n |-> numerator, d |-> denominator] in lowest terms    *)
(* with d > 0, so that equality of records is equality of numbers.         *)
(* Rounding is not modelled.  Masks are the integers 0 and 1.  Values that *)
(* are only stored and copied (observations, recurrent states, actions,    *)
(* log-probabilities) are integers.                                        *)
(***************************************************************************)
EXTENDS Integers, Sequences, FiniteSets, TLC

VARIABLES rollouts, call, gen, upd

vars == <<rollouts, call, gen, upd>>

----------------------------------------------------------------------------
(* Bounds of the model. *)

MaxT == 2
MaxN == 2

\* compute_returns is tried on every buffer of at most MaxCells = T * N cells.
MaxCells == 2

\* The generators and update run on buffers of at most MaxGenEnvs
\* environments and MaxBatch = T * N transitions.
MaxGenEnvs == 4
MaxBatch == 4

\* PPO's num_epochs and num_minibatches.
MaxEpochs == 2
MaxMinibatches == 3

----------------------------------------------------------------------------
(* Exact rational arithmetic standing for the tensors' float arithmetic. *)

Abs(x) == IF x < 0 THEN -x ELSE x

RECURSIVE GCD(_, _)
GCD(a, b) == IF b = 0 THEN a ELSE GCD(b, a % b)

Rat(n, d) ==
  LET g == GCD(Abs(n), Abs(d))
      s == IF d < 0 THEN -1 ELSE 1
  IN  [n |-> (s * n) \div g, d |-> (s * d) \div g]

FromInt(k) == [n |-> k, d |-> 1]

RAdd(x, y) == Rat(x.n * y.d + y.n * x.d, x.d * y.d)

RSub(x, y) == Rat(x.n * y.d - y.n * x.d, x.d * y.d)

RMul(x, y) == Rat(x.n * y.n, x.d * y.d)

\* x / k for a positive integer k
RDivInt(x, k) == Rat(x.n, x.d * k)

----------------------------------------------------------------------------
(* RolloutStorage *)

\* self.rewards.size(0) and self.rewards.size(1)
NumSteps(b) == Cardinality(DOMAIN b.rewards)

NumProcesses(b) == Cardinality(DOMAIN b.rewards[0])

Envs(b) == 0 .. NumProcesses(b) - 1

\* torch.zeros / torch.ones of shape (len, N, ...)
Full(len, N, v) == [t \in 0 .. len - 1 |-> [n \in 0 .. N - 1 |-> v]]

\* RolloutStorage.__init__
NewRolloutStorage(T, N) ==
  [obs                     |-> Full(T + 1, N, 0),
   recurrent_hidden_states |-> Full(T + 1, N, 0),
   rewards                 |-> Full(T, N, FromInt(0)),
   value_preds             |-> Full(T + 1, N, FromInt(0)),
   returns                 |-> Full(T + 1, N, FromInt(0)),
   action_log_probs        |-> Full(T, N, 0),
   actions                 |-> Full(T, N, 0),
   done_masks              |-> Full(T + 1, N, 1),
   time_limit_masks        |-> Full(T + 1, N, 1),
   rollout_steps           |-> T,
   step                    |-> 0]

\* InsertInto with the two masks stored at the cursor, beside the reward.
InsertIntoMasksAtCursor(b, x) ==
  [b EXCEPT !.obs[b.step + 1]                     = x.obs,
            !.recurrent_hidden_states[b.step + 1] = x.recurrent_hidden_states,
            !.actions[b.step]                     = x.actions,
            !.action_log_probs[b.step]            = x.action_log_probs,
            !.value_preds[b.step]                 = x.value_preds,
            !.rewards[b.step]                     = x.rewards,
            !.done_masks[b.step]                  = x.done_masks,
            !.time_limit_masks[b.step]            = x.time_limit_masks,
            !.step                                = (b.step + 1) % b.rollout_steps]

\* InsertInto with a cursor that stops at the last slot instead of wrapping.
InsertIntoSaturating(b, x) ==
  [b EXCEPT !.obs[b.step + 1]                     = x.obs,
            !.recurrent_hidden_states[b.step + 1] = x.recurrent_hidden_states,
            !.actions[b.step]                     = x.actions,
            !.action_log_probs[b.step]            = x.action_log_probs,
            !.value_preds[b.step]                 = x.value_preds,
            !.rewards[b.step]                     = x.rewards,
            !.done_masks[b.step + 1]              = x.done_masks,
            !.time_limit_masks[b.step + 1]        = x.time_limit_masks,
            !.step = IF b.step + 1 = b.rollout_steps THEN b.step ELSE b.step + 1]

\* RolloutStorage.insert: x is a record of the eight argument tensors, each
\* a function over the environments.
InsertInto(b, x) ==
  [b EXCEPT !.obs[b.step + 1]                     = x.obs,
            !.recurrent_hidden_states[b.step + 1] = x.recurrent_hidden_states,
            !.actions[b.step]                     = x.actions,
            !.action_log_probs[b.step]            = x.action_log_probs,
            !.value_preds[b.step]                 = x.value_preds,
            !.rewards[b.step]                     = x.rewards,
            !.done_masks[b.step + 1]              = x.done_masks,
            !.time_limit_masks[b.step + 1]        = x.time_limit_masks,
            !.step                                = (b.step + 1) % b.rollout_steps]

\* AfterUpdateOf exchanging slot 0 and the last slot instead of copying.
AfterUpdateSwapping(b) ==
  LET last(x) == x[Cardinality(DOMAIN x) - 1]
      swapped(x) == [x EXCEPT ![0] = last(x), ![Cardinality(DOMAIN x) - 1] = x[0]]
  IN  [b EXCEPT !.obs                     = swapped(b.obs),
                !.recurrent_hidden_states = swapped(b.recurrent_hidden_states),
                !.done_masks              = swapped(b.done_masks),
                !.time_limit_masks        = swapped(b.time_limit_masks)]

\* AfterUpdateOf with the copy of time_limit_masks forgotten.
AfterUpdateWithoutTimeLimitMasks(b) ==
  LET last(x) == x[Cardinality(DOMAIN x) - 1]
  IN  [b EXCEPT !.obs[0]                     = last(b.obs),
                !.recurrent_hidden_states[0] = last(b.recurrent_hidden_states),
                !.done_masks[0]              = last(b.done_masks)]

\* RolloutStorage.after_update: index -1 is the last slot of each tensor.
AfterUpdateOf(b) ==
  LET last(x) == x[Cardinality(DOMAIN x) - 1]
  IN  [b EXCEPT !.obs[0]                     = last(b.obs),
                !.recurrent_hidden_states[0] = last(b.recurrent_hidden_states),
                !.done_masks[0]              = last(b.done_masks),
                !.time_limit_masks[0]        = last(b.time_limit_masks)]

LastIndex(x) == Cardinality(DOMAIN x) - 1

\* A 0/1 mask as a factor of a float product.
M(m) == FromInt(m)

\* GaeStep with the multiplication by time_limit_masks forgotten.
GaeStepUnmasked(b, step, gae, gamma, gae_lambda, use_proper_time_limits) ==
  [n \in Envs(b) |->
    LET delta == RSub(RAdd(b.rewards[step][n],
                           RMul(RMul(gamma, b.value_preds[step + 1][n]),
                                M(b.done_masks[step + 1][n]))),
                      b.value_preds[step][n])
    IN  RAdd(delta,
             RMul(RMul(RMul(gamma, gae_lambda), M(b.done_masks[step + 1][n])),
                  gae[n]))]

\* GaeStep with time_limit_masks applied to delta only, so that the
\* accumulated gae of later steps passes a truncation.
GaeStepMaskDeltaOnly(b, step, gae, gamma, gae_lambda, use_proper_time_limits) ==
  [n \in Envs(b) |->
    LET delta == RSub(RAdd(b.rewards[step][n],
                           RMul(RMul(gamma, b.value_preds[step + 1][n]),
                                M(b.done_masks[step + 1][n]))),
                      b.value_preds[step][n])
        masked == IF use_proper_time_limits
                  THEN RMul(delta, M(b.time_limit_masks[step + 1][n]))
                  ELSE delta
    IN  RAdd(masked,
             RMul(RMul(RMul(gamma, gae_lambda), M(b.done_masks[step + 1][n])),
                  gae[n]))]

\* One iteration of the GAE loop of compute_returns: the new value of gae,
\* per environment, from the old one.  The branch without proper time
\* limits is the same code without the multiplication by time_limit_masks.
GaeStep(b, step, gae, gamma, gae_lambda, use_proper_time_limits) ==
  [n \in Envs(b) |->
    LET delta == RSub(RAdd(b.rewards[step][n],
                           RMul(RMul(gamma, b.value_preds[step + 1][n]),
                                M(b.done_masks[step + 1][n]))),
                      b.value_preds[step][n])
        acc   == RAdd(delta,
                      RMul(RMul(RMul(gamma, gae_lambda),
                                M(b.done_masks[step + 1][n])),
                           gae[n]))
    IN  IF use_proper_time_limits
        THEN RMul(acc, M(b.time_limit_masks[step + 1][n]))
        ELSE acc]

\* for step in reversed(range(self.rewards.size(0))), with use_gae
RECURSIVE GaeLoop(_, _, _, _, _, _, _)
GaeLoop(b, step, gae, returns, gamma, gae_lambda, use_proper_time_limits) ==
  IF step < 0 THEN returns
  ELSE LET g == GaeStep(b, step, gae, gamma, gae_lambda, use_proper_time_limits)
           r == [n \in Envs(b) |-> RAdd(g[n], b.value_preds[step][n])]
       IN  GaeLoop(b, step - 1, g, [returns EXCEPT ![step] = r],
                   gamma, gae_lambda, use_proper_time_limits)

\* DiscountedStep without the fallback to the value estimate.
DiscountedStepNoFallback(b, returns, step, gamma, use_proper_time_limits) ==
  [n \in Envs(b) |->
    LET sum == RAdd(RMul(RMul(returns[step + 1][n], gamma),
                         M(b.done_masks[step + 1][n])),
                    b.rewards[step][n])
    IN  IF use_proper_time_limits
        THEN RMul(sum, M(b.time_limit_masks[step + 1][n]))
        ELSE sum]

\* One iteration of the discounted-return loop: the value of returns[step],
\* per environment, from returns[step + 1].
DiscountedStep(b, returns, step, gamma, use_proper_time_limits) ==
  [n \in Envs(b) |->
    LET sum == RAdd(RMul(RMul(returns[step + 1][n], gamma),
                         M(b.done_masks[step + 1][n])),
                    b.rewards[step][n])
    IN  IF use_proper_time_limits
        THEN RAdd(RMul(sum, M(b.time_limit_masks[step + 1][n])),
                  RMul(M(1 - b.time_limit_masks[step + 1][n]),
                       b.value_preds[step][n]))
        ELSE sum]

\* for step in reversed(range(self.rewards.size(0))), without use_gae
RECURSIVE DiscountedLoop(_, _, _, _, _)
DiscountedLoop(b, step, returns, gamma, use_proper_time_limits) ==
  IF step < 0 THEN returns
  ELSE LET r == DiscountedStep(b, returns, step, gamma, use_proper_time_limits)
       IN  DiscountedLoop(b, step - 1, [returns EXCEPT ![step] = r],
                          gamma, use_proper_time_limits)

\* RolloutStorage.compute_returns: a is the record of its arguments.
ComputeReturnsOf(b, a) ==
  IF a.use_gae
  THEN LET b1 == [b EXCEPT !.value_preds[LastIndex(b.value_preds)] = a.next_value]
           zero == [n \in Envs(b) |-> FromInt(0)]
       IN  [b1 EXCEPT !.returns =
              GaeLoop(b1, NumSteps(b) - 1, zero, b1.returns,
                      a.gamma, a.gae_lambda, a.use_proper_time_limits)]
  ELSE LET r0 == [b.returns EXCEPT ![LastIndex(b.returns)] = a.next_value]
       IN  [b EXCEPT !.returns =
              DiscountedLoop(b, NumSteps(b) - 1, r0,
                             a.gamma, a.use_proper_time_limits)]

----------------------------------------------------------------------------
(* The minibatch generators.  A generator object is a record: calling the  *)
(* generator function creates it without running any of its body (status   *)
(* "created"); each resumption (next) runs the body to the next yield      *)
(* ("running"), to its end ("exhausted") or to an exception ("failed").    *)
(* yielded lists the minibatches yielded so far; drawn lists, for each of  *)
(* them, the indices it was built from.  An optional argument is a         *)
(* sequence: <<>> for None, <<v>> for the value v.                         *)

\* x.view(-1, ...)[i] for a tensor x of shape (T, N, ...): row-major.
FlatAt(x, i, N) == x[i \div N][i % N]

\* The tuple built in one iteration of feed_forward_generator's loop, for
\* the list of flat indices the sampler handed out.
FeedForwardBatch(b, advantages, indices) ==
  LET N == NumProcesses(b)
      take(x) == [p \in DOMAIN indices |-> FlatAt(x, indices[p], N)]
  IN  [obs_batch                     |-> take(b.obs),
       recurrent_hidden_states_batch |-> take(b.recurrent_hidden_states),
       actions_batch                 |-> take(b.actions),
       value_preds_batch             |-> take(b.value_preds),
       return_batch                  |-> take(b.returns),
       masks_batch                   |-> take(b.done_masks),
       old_action_log_probs_batch    |-> take(b.action_log_probs),
       adv_targ                      |-> IF advantages = <<>> THEN <<>>
                                         ELSE take(advantages[1])]

\* feed_forward_generator(advantages, num_minibatches, minibatch_size)
FeedForwardGenerator(advantages, num_minibatches, minibatch_size) ==
  [kind |-> "feed_forward", status |-> "created", error |-> "none",
   advantages |-> advantages, num_minibatches |-> num_minibatches,
   minibatch_size |-> minibatch_size,
   size |-> 0, perm |-> <<>>, yielded |-> <<>>, drawn |-> <<>>]

\* FeedForwardAssertion with > for >=.
FeedForwardAssertionStrict(batch_size, num_minibatches) == batch_size > num_minibatches

\* The assertion of feed_forward_generator.
FeedForwardAssertion(batch_size, num_minibatches) == batch_size >= num_minibatches

\* BatchSampler(..., drop_last=True): whether a k-th batch (from 0) of the
\* given size can be cut from batch_size indices.
HasBatch(k, size, batch_size) == (k + 1) * size <= batch_size

\* One resumption of feed_forward_generator.  perm is the order in which
\* SubsetRandomSampler hands out range(batch_size), drawn when the loop
\* starts.
FeedForwardResume(g, b, perm) ==
  LET batch_size == NumProcesses(b) * NumSteps(b)
      first == g.status = "created"
  IN  IF first /\ g.minibatch_size = <<>>
            /\ ~FeedForwardAssertion(batch_size, g.num_minibatches[1])
      THEN [g EXCEPT !.status = "failed", !.error = "AssertionError"]
      ELSE
        LET size == IF ~first THEN g.size
                    ELSE IF g.minibatch_size = <<>>
                         THEN batch_size \div g.num_minibatches[1]
                         ELSE g.minibatch_size[1]
            order == IF first THEN perm ELSE g.perm
            k == Len(g.yielded)
            indices == [p \in 0 .. size - 1 |-> order[k * size + p]]
        IN  IF HasBatch(k, size, batch_size)
            THEN [g EXCEPT !.status = "running", !.size = size, !.perm = order,
                           !.yielded = Append(@, FeedForwardBatch(b, g.advantages, indices)),
                           !.drawn = Append(@, indices)]
            ELSE [g EXCEPT !.status = "exhausted", !.size = size, !.perm = order]

\* torch.stack(columns, 1) of a list of (T, ...) tensors: shape (T, N, ...)
Stack1(columns, T) ==
  [t \in 0 .. T - 1 |-> [j \in DOMAIN columns |-> columns[j][t]]]

\* FlattenHelper reading the tensor environment by environment, as a view
\* of the transposed tensor would.
FlattenHelperEnvMajor(T, N, tensor) ==
  [p \in 0 .. T * N - 1 |-> tensor[p % T][p \div T]]

\* _flatten_helper: tensor.view(T * N, ...)
FlattenHelper(T, N, tensor) ==
  [p \in 0 .. T * N - 1 |-> tensor[p \div N][p % N]]

\* x[:-1, ind] (or x[:, ind] for a tensor of T rows): the first T entries
\* of environment ind.
Column(x, ind, T) == [t \in 0 .. T - 1 |-> x[t][ind]]

\* The tuple built in one iteration of recurrent_generator's outer loop,
\* for the list inds of environments perm[start_ind + offset].
RecurrentBatch(b, advantages, inds) ==
  LET T == b.rollout_steps
      N == Cardinality(DOMAIN inds)
      flat(x) == FlattenHelper(T, N, Stack1([j \in DOMAIN inds |-> Column(x, inds[j], T)], T))
  IN  [obs_batch                     |-> flat(b.obs),
       \* stack of the (1, size) slices [0:1, ind], viewed as (N, size)
       recurrent_hidden_states_batch |->
         FlattenHelper(1, N, Stack1([j \in DOMAIN inds |->
                                       Column(b.recurrent_hidden_states, inds[j], 1)], 1)),
       actions_batch                 |-> flat(b.actions),
       value_preds_batch             |-> flat(b.value_preds),
       return_batch                  |-> flat(b.returns),
       masks_batch                   |-> flat(b.done_masks),
       old_action_log_probs_batch    |-> flat(b.action_log_probs),
       adv_targ                      |-> flat(advantages[1])]

\* recurrent_generator(advantages, num_minibatches)
RecurrentGenerator(advantages, num_minibatches) ==
  [kind |-> "recurrent", status |-> "created", error |-> "none",
   advantages |-> advantages, num_minibatches |-> <<num_minibatches>>,
   minibatch_size |-> <<>>,
   size |-> 0, perm |-> <<>>, yielded |-> <<>>, drawn |-> <<>>]

\* The assertion of recurrent_generator.
RecurrentAssertion(num_processes, num_minibatches) == num_processes >= num_minibatches

\* One resumption of recurrent_generator.  perm is torch.randperm(N);
\* size is num_envs_per_batch; the k-th iteration of the outer loop has
\* start_ind = k * size; perm[i] with i >= N raises IndexError.
RecurrentResume(g, b, perm) ==
  LET num_processes == NumProcesses(b)
      first == g.status = "created"
  IN  IF first /\ ~RecurrentAssertion(num_processes, g.num_minibatches[1])
      THEN [g EXCEPT !.status = "failed", !.error = "AssertionError"]
      ELSE
        LET size == IF first THEN num_processes \div g.num_minibatches[1] ELSE g.size
            order == IF first THEN perm ELSE g.perm
            start_ind == Len(g.yielded) * size
            inds == [offset \in 0 .. size - 1 |-> order[start_ind + offset]]
        IN  IF ~(start_ind < num_processes)
            THEN [g EXCEPT !.status = "exhausted", !.size = size, !.perm = order]
            ELSE IF start_ind + size - 1 >= num_processes
            THEN [g EXCEPT !.status = "failed", !.error = "IndexError",
                           !.size = size, !.perm = order]
            ELSE [g EXCEPT !.status = "running", !.size = size, !.perm = order,
                           !.yielded = Append(@, RecurrentBatch(b, g.advantages, inds)),
                           !.drawn = Append(@, inds)]

\* next(generator): a finished generator stays finished.
Resume(g, b, perm) ==
  IF g.status \in {"exhausted", "failed"} THEN g
  ELSE IF g.kind = "feed_forward" THEN FeedForwardResume(g, b, perm)
  ELSE RecurrentResume(g, b, perm)

\* Orders for samplers that draw with replacement.
OrdersWithReplacement(g, b) ==
  IF g.status # "created" THEN {<<>>}
  ELSE IF g.kind = "feed_forward"
       THEN [0 .. NumProcesses(b) * NumSteps(b) - 1 -> 0 .. NumProcesses(b) * NumSteps(b) - 1]
       ELSE [0 .. NumProcesses(b) - 1 -> 0 .. NumProcesses(b) - 1]

\* The random orders a resumption can draw: one per permutation when the
\* body starts, none afterwards.
Orders(g, b) ==
  IF g.status # "created" THEN {<<>>}
  ELSE IF g.kind = "feed_forward"
       THEN Permutations(0 .. NumProcesses(b) * NumSteps(b) - 1)
       ELSE Permutations(0 .. NumProcesses(b) - 1)

----------------------------------------------------------------------------
(* PPO.update *)

\* Sum of x[t][n] over a tensor of rationals, rows 0..T-1.
RECURSIVE SumCells(_, _, _)
SumCells(x, cells, acc) ==
  IF cells = {} THEN acc
  ELSE LET c == CHOOSE c \in cells : TRUE
       IN  SumCells(x, cells \ {c}, RAdd(acc, x[c[1]][c[2]]))

\* advantages = returns[:-1] - value_preds[:-1], then standardized.  The
\* standardized value (a - mean) / (std + 1e-5) is kept as the pair of its
\* exact ingredients: num = a - mean and var = the unbiased variance (the
\* square of std), which is undefined ("nan") for a single element.
Advantages(b) ==
  LET T == NumSteps(b)
      N == NumProcesses(b)
      cells == (0 .. T - 1) \X (0 .. N - 1)
      raw == [t \in 0 .. T - 1 |-> [n \in 0 .. N - 1 |->
                RSub(b.returns[t][n], b.value_preds[t][n])]]
      mean == RDivInt(SumCells(raw, cells, FromInt(0)), T * N)
      sq == [t \in 0 .. T - 1 |-> [n \in 0 .. N - 1 |->
                RMul(RSub(raw[t][n], mean), RSub(raw[t][n], mean))]]
      var == IF T * N = 1 THEN "nan"
             ELSE RDivInt(SumCells(sq, cells, FromInt(0)), T * N - 1)
  IN  [t \in 0 .. T - 1 |-> [n \in 0 .. N - 1 |->
         [num |-> RSub(raw[t][n], mean), var |-> var]]]

\* PPO.update, lines 115-123: the generator one epoch iterates.
EpochGenerator(self, advantages) ==
  IF self.is_recurrent
  THEN RecurrentGenerator(<<advantages>>, self.num_minibatches)
  ELSE FeedForwardGenerator(<<advantages>>, <<self.num_minibatches>>, <<>>)

\* PPO.update, line 185
NumUpdates(self) == self.num_epochs * self.num_minibatches

\* PPO.update, lines 187-191: the three returned scalars.
UpdateResult(u) ==
  [value_loss   |-> Rat(u.value_loss_epoch, NumUpdates(u.self)),
   action_loss  |-> Rat(u.action_loss_epoch, NumUpdates(u.self)),
   dist_entropy |-> Rat(u.dist_entropy_epoch, NumUpdates(u.self))]

----------------------------------------------------------------------------
(* The state: rollouts is the RolloutStorage object; call records the      *)
(* operation that returned last and its arguments; gen is the minibatch    *)
(* generator in progress; upd is the PPO.update call in progress.          *)

NoGen == [status |-> "none"]

NoUpdate == [pc |-> "idle"]

\* The transitions an environment step can deliver for one environment.
TransitionSamples ==
  << [obs |-> 1, recurrent_hidden_states |-> 1, actions |-> 1, action_log_probs |-> 1,
      value_preds |-> Rat(1, 2), rewards |-> FromInt(1), done_masks |-> 1, time_limit_masks |-> 1],
     [obs |-> 2, recurrent_hidden_states |-> 2, actions |-> 0, action_log_probs |-> 2,
      value_preds |-> FromInt(1), rewards |-> FromInt(2), done_masks |-> 0, time_limit_masks |-> 1],
     [obs |-> 3, recurrent_hidden_states |-> 3, actions |-> 1, action_log_probs |-> 3,
      value_preds |-> FromInt(2), rewards |-> FromInt(0), done_masks |-> 0, time_limit_masks |-> 0] >>

\* The argument tensors of one insert call: environment n delivers
\* transition k + n (cyclically), so that the environments differ.
InsertBatch(k, N) ==
  LET s(n) == TransitionSamples[((k - 1 + n) % Len(TransitionSamples)) + 1]
  IN  [obs                     |-> [n \in 0 .. N - 1 |-> s(n).obs],
       recurrent_hidden_states |-> [n \in 0 .. N - 1 |-> s(n).recurrent_hidden_states],
       actions                 |-> [n \in 0 .. N - 1 |-> s(n).actions],
       action_log_probs        |-> [n \in 0 .. N - 1 |-> s(n).action_log_probs],
       value_preds             |-> [n \in 0 .. N - 1 |-> s(n).value_preds],
       rewards                 |-> [n \in 0 .. N - 1 |-> s(n).rewards],
       done_masks              |-> [n \in 0 .. N - 1 |-> s(n).done_masks],
       time_limit_masks        |-> [n \in 0 .. N - 1 |-> s(n).time_limit_masks]]

InsertArgs(N) == {InsertBatch(k, N) : k \in 1 .. Len(TransitionSamples)}

\* A bootstrap value tensor: base + n for environment n.
NextValue(base, N) == [n \in 0 .. N - 1 |-> FromInt(base + n)]

\* The arguments of compute_returns tried by the driver on a buffer of N
\* environments: with and without GAE, at one discount setting, with
\* use_proper_time_limits at its default.
DriverReturnArgs(N) ==
  [next_value : {NextValue(1, N)},
   use_gae : BOOLEAN,
   gamma : {Rat(1, 2)},
   gae_lambda : {Rat(1, 2)},
   use_proper_time_limits : {TRUE}]

Init ==
  /\ \E T \in 1 .. MaxT, N \in 1 .. MaxN : rollouts = NewRolloutStorage(T, N)
  /\ call = [op |-> "__init__"]
  /\ gen = NoGen
  /\ upd = NoUpdate

Insert ==
  \E x \in InsertArgs(NumProcesses(rollouts)) :
    /\ rollouts' = InsertInto(rollouts, x)
    /\ call' = [op |-> "insert", args |-> x]
    /\ UNCHANGED <<gen, upd>>

AfterUpdate ==
  /\ rollouts' = AfterUpdateOf(rollouts)
  /\ call' = [op |-> "after_update"]
  /\ UNCHANGED <<gen, upd>>

ComputeReturnsWith(a) ==
  /\ rollouts' = ComputeReturnsOf(rollouts, a)
  /\ call' = [op |-> "compute_returns", args |-> a]
  /\ UNCHANGED <<gen, upd>>

ComputeReturns ==
  \E a \in DriverReturnArgs(NumProcesses(rollouts)) : ComputeReturnsWith(a)

Next == Insert \/ AfterUpdate \/ ComputeReturns

Spec == Init /\ [][Next]_vars

----------------------------------------------------------------------------
(* compute_returns as a function of the buffer: every buffer of bounded    *)
(* size and content, each with every bounded argument record.              *)

RewardVals == {FromInt(0), FromInt(1)}

ValueVals == {Rat(1, 2), FromInt(-1)}

\* What one insert call stores for one environment, as far as
\* compute_returns reads it.
Cells ==
  [rewards : RewardVals, value_preds : ValueVals,
   done_masks : {0, 1}, time_limit_masks : {0, 1}]

\* The argument tensors of insert for one row of cells.
CellBatch(row) ==
  [obs                     |-> [n \in DOMAIN row |-> 0],
   recurrent_hidden_states |-> [n \in DOMAIN row |-> 0],
   actions                 |-> [n \in DOMAIN row |-> 0],
   action_log_probs        |-> [n \in DOMAIN row |-> 0],
   value_preds             |-> [n \in DOMAIN row |-> row[n].value_preds],
   rewards                 |-> [n \in DOMAIN row |-> row[n].rewards],
   done_masks              |-> [n \in DOMAIN row |-> row[n].done_masks],
   time_limit_masks        |-> [n \in DOMAIN row |-> row[n].time_limit_masks]]

\* The buffer after one rollout: rows c[0], ..., c[T-1] inserted in turn
\* into a new buffer.
RECURSIVE InsertRows(_, _, _)
InsertRows(b, c, t) ==
  IF t = Cardinality(DOMAIN c) THEN b
  ELSE InsertRows(InsertInto(b, CellBatch(c[t])), c, t + 1)

Rollout(c) ==
  InsertRows(NewRolloutStorage(Cardinality(DOMAIN c), Cardinality(DOMAIN c[0])), c, 0)

ReturnDims ==
  {d \in (1 .. MaxCells) \X (1 .. MaxCells) : d[1] * d[2] <= MaxCells}

GenericRollouts ==
  UNION { {Rollout(c) : c \in [0 .. d[1] - 1 -> [0 .. d[2] - 1 -> Cells]]}
          : d \in ReturnDims }

\* The two-step, one-environment scenario: rewards [1, 2], done_masks
\* [1, 1, 0], value_preds[0] = 0.5, value_preds[1] = v1, time_limit_masks
\* [1, m1, 1].
ScenarioRollout(v1, m1) ==
  Rollout([t \in 0 .. 1 |-> [n \in 0 .. 0 |->
    IF t = 0
    THEN [rewards |-> FromInt(1), value_preds |-> Rat(1, 2),
          done_masks |-> 1, time_limit_masks |-> m1]
    ELSE [rewards |-> FromInt(2), value_preds |-> v1,
          done_masks |-> 0, time_limit_masks |-> 1]]])

ScenarioValuePreds ==
  {FromInt(0), Rat(1, 2), FromInt(1), FromInt(2), FromInt(-1), FromInt(-48),
   Rat(-4762, 99), FromInt(-49)}

ScenarioRollouts ==
  {ScenarioRollout(v1, m1) : v1 \in ScenarioValuePreds, m1 \in {0, 1}}

\* gamma = 0.99, gae_lambda = 0.95, bootstrap value 0.0
ScenarioArgs ==
  [next_value |-> NextValue(0, 1), use_gae |-> TRUE, gamma |-> Rat(99, 100),
   gae_lambda |-> Rat(19, 20), use_proper_time_limits |-> TRUE]

Gammas == {Rat(1, 2), FromInt(1)}

Lambdas == {Rat(1, 2), FromInt(1)}

GenericReturnArgs(N) ==
  [next_value : {NextValue(0, N), NextValue(1, N)},
   use_gae : BOOLEAN,
   gamma : Gammas,
   gae_lambda : Lambdas,
   use_proper_time_limits : BOOLEAN]

ReturnArgsTried(b) ==
  GenericReturnArgs(NumProcesses(b))
    \cup (IF NumProcesses(b) = 1 /\ NumSteps(b) = 2 THEN {ScenarioArgs} ELSE {})

InitReturns ==
  /\ rollouts \in GenericRollouts \cup ScenarioRollouts
  /\ call = [op |-> "insert"]
  /\ gen = NoGen
  /\ upd = NoUpdate

\* compute_returns is called once on each buffer.
NextReturns ==
  /\ call.op = "insert"
  /\ \E a \in ReturnArgsTried(rollouts) : ComputeReturnsWith(a)

SpecReturns == InitReturns /\ [][NextReturns]_vars

----------------------------------------------------------------------------
(* The generators and update on a populated buffer: two rollouts of        *)
(* pairwise distinct transitions with after_update between them, then      *)
(* compute_returns.                                                        *)

\* The argument tensors of the insert call of step t of rollout r.
DistinctBatch(r, t, N) ==
  [obs                     |-> [n \in 0 .. N - 1 |-> 100 * r + 10 * (t + 1) + n],
   recurrent_hidden_states |-> [n \in 0 .. N - 1 |-> 1000 + 100 * r + 10 * (t + 1) + n],
   actions                 |-> [n \in 0 .. N - 1 |-> (r + t + n) % 2],
   action_log_probs        |-> [n \in 0 .. N - 1 |-> -(100 * r + 10 * (t + 1) + n)],
   value_preds             |-> [n \in 0 .. N - 1 |-> Rat(r + t + 2 * n, 2)],
   rewards                 |-> [n \in 0 .. N - 1 |-> FromInt(1 + t + n)],
   done_masks              |-> [n \in 0 .. N - 1 |-> (r + t + n) % 2],
   time_limit_masks        |-> [n \in 0 .. N - 1 |-> IF t = 1 /\ n = 1 THEN 0 ELSE 1]]

RECURSIVE InsertRollout(_, _, _)
InsertRollout(b, r, t) ==
  IF t = b.rollout_steps THEN b
  ELSE InsertRollout(InsertInto(b, DistinctBatch(r, t, NumProcesses(b))), r, t + 1)

PopulatedArgs(N) ==
  [next_value |-> NextValue(1, N), use_gae |-> TRUE, gamma |-> Rat(1, 2),
   gae_lambda |-> Rat(1, 2), use_proper_time_limits |-> TRUE]

Populated(T, N) ==
  ComputeReturnsOf(
    InsertRollout(AfterUpdateOf(InsertRollout(NewRolloutStorage(T, N), 1, 0)), 2, 0),
    PopulatedArgs(N))

GenDims ==
  {d \in (1 .. MaxT) \X (1 .. MaxGenEnvs) : d[1] * d[2] <= MaxBatch}

\* The PPO objects: the fields update reads.
PPOs ==
  [is_recurrent : BOOLEAN, num_epochs : 1 .. MaxEpochs,
   num_minibatches : 1 .. MaxMinibatches]

\* What one minibatch's forward pass and loss computation can give:
\* value_loss.item(), action_loss.item(), dist_entropy.item().
LossSamples ==
  { [value_loss |-> 2, action_loss |-> -1, dist_entropy |-> 1],
    [value_loss |-> 4, action_loss |-> 1, dist_entropy |-> 3] }

\* update neither reads a generator made before it nor changes the buffer,
\* and a generator reads nothing of an update: the caller either drives
\* generators of its own or runs one update.
Idle == upd.pc = "idle"

InitGen ==
  /\ \E d \in GenDims : rollouts = Populated(d[1], d[2])
  /\ call = [op |-> "compute_returns",
             args |-> PopulatedArgs(NumProcesses(rollouts))]
  /\ gen = NoGen
  /\ upd = NoUpdate

\* A caller creates a feed-forward generator, from a minibatch count or
\* from a minibatch size.
CallFeedForwardGenerator ==
  /\ Idle
  /\ \/ \E k \in 1 .. MaxMinibatches :
          gen' = FeedForwardGenerator(<<Advantages(rollouts)>>, <<k>>, <<>>)
     \/ \E size \in 1 .. MaxBatch :
          gen' = FeedForwardGenerator(<<Advantages(rollouts)>>, <<>>, <<size>>)
  /\ UNCHANGED <<rollouts, call, upd>>

\* A caller creates a recurrent generator.
CallRecurrentGenerator ==
  /\ Idle
  /\ \E k \in 1 .. MaxMinibatches :
       gen' = RecurrentGenerator(<<Advantages(rollouts)>>, k)
  /\ UNCHANGED <<rollouts, call, upd>>

\* The caller asks its generator for the next minibatch.
NextMinibatch ==
  /\ Idle
  /\ gen.status \in {"created", "running"}
  /\ \E perm \in Orders(gen, rollouts) : gen' = Resume(gen, rollouts, perm)
  /\ UNCHANGED <<rollouts, call, upd>>

\* PPO.update, lines 108-113
UpdateStart ==
  /\ Idle
  /\ gen = NoGen
  /\ \E self \in PPOs :
       upd' = [pc |-> "epoch", self |-> self, advantages |-> Advantages(rollouts),
               e |-> 0, value_loss_epoch |-> 0, action_loss_epoch |-> 0,
               dist_entropy_epoch |-> 0, steps |-> 0, result |-> <<>>]
  /\ UNCHANGED <<rollouts, call, gen>>

\* PPO.update, line 115 to 123 (another epoch) or 185 to 191 (return)
UpdateEpoch ==
  /\ upd.pc = "epoch"
  /\ IF upd.e < upd.self.num_epochs
     THEN /\ gen' = EpochGenerator(upd.self, upd.advantages)
          /\ upd' = [upd EXCEPT !.pc = "batches"]
     ELSE /\ upd' = [upd EXCEPT !.pc = "returned", !.result = <<UpdateResult(upd)>>]
          /\ UNCHANGED gen
  /\ UNCHANGED <<rollouts, call>>

\* PPO.update, lines 125-183: one turn of "for sample in data_generator".
\* steps counts the calls of optimizer.step().
UpdateBatch ==
  /\ upd.pc = "batches"
  /\ \E perm \in Orders(gen, rollouts) :
       LET g == Resume(gen, rollouts, perm)
       IN  /\ gen' = g
           /\ CASE g.status = "running" ->
                     \E loss \in LossSamples :
                       upd' = [upd EXCEPT
                                 !.value_loss_epoch = @ + loss.value_loss,
                                 !.action_loss_epoch = @ + loss.action_loss,
                                 !.dist_entropy_epoch = @ + loss.dist_entropy,
                                 !.steps = @ + 1]
                [] g.status = "exhausted" ->
                     upd' = [upd EXCEPT !.pc = "epoch", !.e = @ + 1]
                [] OTHER ->
                     upd' = [upd EXCEPT !.pc = "raised"]
  /\ UNCHANGED <<rollouts, call>>

NextGen ==
  \/ CallFeedForwardGenerator
  \/ CallRecurrentGenerator
  \/ NextMinibatch
  \/ UpdateStart
  \/ UpdateEpoch
  \/ UpdateBatch

SpecGen == InitGen /\ [][NextGen]_vars

----------------------------------------------------------------------------
(* Claims about compute_returns, checked under SpecReturns. *)

Returned(op) == call.op = op

\* The reference backward recursion of the GAE term for environment n:
\* g_T = 0 and g_t = time_limit_masks[t+1] * (delta_t + gamma * gae_lambda *
\* done_masks[t+1] * g_{t+1}), read off the buffer b after the call.
RECURSIVE RefGae(_, _, _, _)
RefGae(b, a, n, t) ==
  IF t = NumSteps(b) THEN FromInt(0)
  ELSE LET delta == RSub(RAdd(b.rewards[t][n],
                              RMul(a.gamma,
                                   RMul(b.value_preds[t + 1][n],
                                        M(b.done_masks[t + 1][n])))),
                         b.value_preds[t][n])
           rest  == RMul(RMul(a.gamma, a.gae_lambda),
                         RMul(M(b.done_masks[t + 1][n]), RefGae(b, a, n, t + 1)))
       IN  RMul(M(b.time_limit_masks[t + 1][n]), RAdd(delta, rest))

\* C1: after compute_returns with use_gae and use_proper_time_limits,
\* value_preds[T] is the bootstrap value and, for every environment n and
\* every t in 0..T-1, returns[t] = value_preds[t] + g_t for the reference
\* recursion g.
C1_GaeProperTimeLimits ==
  (Returned("compute_returns") /\ call.args.use_gae
     /\ call.args.use_proper_time_limits) =>
    /\ rollouts.value_preds[rollouts.rollout_steps] = call.args.next_value
    /\ \A t \in 0 .. rollouts.rollout_steps - 1 : \A n \in Envs(rollouts) :
         rollouts.returns[t][n] =
           RAdd(rollouts.value_preds[t][n], RefGae(rollouts, call.args, n, t))

\* A two-step GAE computation in which the last step is a truncation and
\* the first is not, and the first step's return is not its value estimate.
C1_Witness ==
  /\ Returned("compute_returns") /\ call.args.use_gae
  /\ call.args.use_proper_time_limits
  /\ rollouts.rollout_steps = 2
  /\ rollouts.time_limit_masks[2][0] = 0
  /\ rollouts.time_limit_masks[1][0] = 1
  /\ rollouts.done_masks[1][0] = 1
  /\ rollouts.returns[0][0] # rollouts.value_preds[0][0]
  /\ rollouts.returns[1][0] = rollouts.value_preds[1][0]

\* The buffer b with everything of environment n that lies after step t
\* replaced by fixed values: rewards and value predictions at indices > t,
\* done_masks at indices > t, time_limit_masks at indices > t + 1.
AfterTruncationErased(b, t, n) ==
  [b EXCEPT
     !.rewards = [u \in DOMAIN b.rewards |->
        IF u > t THEN [b.rewards[u] EXCEPT ![n] = FromInt(5)] ELSE b.rewards[u]],
     !.value_preds = [u \in DOMAIN b.value_preds |->
        IF u > t THEN [b.value_preds[u] EXCEPT ![n] = FromInt(3)] ELSE b.value_preds[u]],
     !.done_masks = [u \in DOMAIN b.done_masks |->
        IF u > t THEN [b.done_masks[u] EXCEPT ![n] = 1] ELSE b.done_masks[u]],
     !.time_limit_masks = [u \in DOMAIN b.time_limit_masks |->
        IF u > t + 1 THEN [b.time_limit_masks[u] EXCEPT ![n] = 1]
        ELSE b.time_limit_masks[u]]]

\* The arguments a with the bootstrap value of environment n replaced.
BootstrapErased(a, n) == [a EXCEPT !.next_value[n] = FromInt(7)]

\* C2: with use_proper_time_limits (with and without GAE), if step t of
\* environment n is a truncation (time_limit_masks[t+1] = 0) then
\* returns[t] = value_preds[t], and every returns[s], s <= t, is the value
\* compute_returns gives on the buffer whose entries after step t, and
\* whose bootstrap value, are erased: returns[s] is a function of the
\* entries at indices <= t alone, so two buffers that agree on those and
\* differ in any way later get the same returns[s].
C2_NoLeakAcrossTruncation ==
  (Returned("compute_returns") /\ call.args.use_proper_time_limits) =>
    \A t \in 0 .. rollouts.rollout_steps - 1 : \A n \in Envs(rollouts) :
      rollouts.time_limit_masks[t + 1][n] = 0 =>
        /\ rollouts.returns[t][n] = rollouts.value_preds[t][n]
        /\ LET twin == ComputeReturnsOf(AfterTruncationErased(rollouts, t, n),
                                        BootstrapErased(call.args, n))
           IN  \A s \in 0 .. t : rollouts.returns[s][n] = twin.returns[s][n]

\* A truncation at the first of two steps, with a later step that earned
\* reward and is not itself a truncation.
C2_Witness ==
  /\ Returned("compute_returns") /\ call.args.use_proper_time_limits
  /\ rollouts.rollout_steps = 2
  /\ rollouts.time_limit_masks[1][0] = 0
  /\ rollouts.time_limit_masks[2][0] = 1
  /\ rollouts.done_masks[1][0] = 1
  /\ rollouts.returns[1][0] # rollouts.value_preds[1][0]
  /\ rollouts.returns[0][0] = rollouts.value_preds[0][0]

\* The state after compute_returns in the two-step scenario with
\* time_limit_masks[1] = m1.
InScenario(m1) ==
  /\ Returned("compute_returns") /\ call.args = ScenarioArgs
  /\ rollouts.rollout_steps = 2 /\ NumProcesses(rollouts) = 1
  /\ rollouts.rewards[0][0] = FromInt(1) /\ rollouts.rewards[1][0] = FromInt(2)
  /\ rollouts.done_masks[0][0] = 1 /\ rollouts.done_masks[1][0] = 1
  /\ rollouts.done_masks[2][0] = 0
  /\ rollouts.value_preds[0][0] = Rat(1, 2)
  /\ rollouts.time_limit_masks[0][0] = 1 /\ rollouts.time_limit_masks[1][0] = m1
  /\ rollouts.time_limit_masks[2][0] = 1

\* returns[0] of the same buffer and arguments with time_limit_masks[1] = 0.
TruncatedTwinReturn ==
  ComputeReturnsOf([rollouts EXCEPT !.time_limit_masks[1][0] = 0],
                   call.args).returns[0][0]

\* C9 as stated: in the scenario, for every value_preds[1] # 0, returns[0]
\* with time_limit_masks[1] = 0 differs from returns[0] with
\* time_limit_masks[1] = 1.
C9_DiffersWheneverValuePredNonzero ==
  (InScenario(1) /\ rollouts.value_preds[1][0] # FromInt(0)) =>
    rollouts.returns[0][0] # TruncatedTwinReturn

\* C9 as amended: in the scenario returns[0] with time_limit_masks[1] = 1
\* is 2.881 + 0.0495 * value_preds[1], returns[0] with
\* time_limit_masks[1] = 0 is value_preds[0] = 0.5, and the two differ
\* exactly when value_preds[1] # -4762/99 (value_preds[1] = 0 included).
C9_DiffersUnlessGaeVanishes ==
  InScenario(1) =>
    /\ rollouts.returns[0][0] =
         RAdd(Rat(2881, 1000), RMul(Rat(495, 10000), rollouts.value_preds[1][0]))
    /\ TruncatedTwinReturn = Rat(1, 2)
    /\ (rollouts.returns[0][0] # TruncatedTwinReturn
          <=> rollouts.value_preds[1][0] # Rat(-4762, 99))

\* The scenario computed with the spec's value_preds[1] = 0.5 and a true
\* terminal: returns[0] = 2.90575 differs from the truncated 0.5.
C9_Witness ==
  /\ InScenario(1)
  /\ rollouts.value_preds[1][0] = Rat(1, 2)
  /\ rollouts.returns[0][0] = Rat(290575, 100000)
  /\ rollouts.returns[0][0] # TruncatedTwinReturn

\* C10: after compute_returns without GAE and with use_proper_time_limits,
\* returns[T] is the bootstrap value and, for every environment and every
\* t in 0..T-1, returns[t] = (returns[t+1] * gamma * done_masks[t+1] +
\* rewards[t]) * time_limit_masks[t+1] + (1 - time_limit_masks[t+1]) *
\* value_preds[t]; so returns[t] = value_preds[t] at a truncation.
C10_DiscountedProperTimeLimits ==
  (Returned("compute_returns") /\ ~call.args.use_gae
     /\ call.args.use_proper_time_limits) =>
    /\ rollouts.returns[rollouts.rollout_steps] = call.args.next_value
    /\ \A t \in 0 .. rollouts.rollout_steps - 1 : \A n \in Envs(rollouts) :
         LET m == rollouts.time_limit_masks[t + 1][n]
             sum == RAdd(RMul(rollouts.returns[t + 1][n],
                              RMul(call.args.gamma, M(rollouts.done_masks[t + 1][n]))),
                         rollouts.rewards[t][n])
         IN  /\ rollouts.returns[t][n] =
                  RAdd(RMul(sum, M(m)),
                       RMul(RSub(FromInt(1), M(m)), rollouts.value_preds[t][n]))
             /\ m = 0 => rollouts.returns[t][n] = rollouts.value_preds[t][n]

\* A two-step discounted computation whose first step is a truncation
\* with a nonzero value estimate and whose second step is not.
C10_Witness ==
  /\ Returned("compute_returns") /\ ~call.args.use_gae
  /\ call.args.use_proper_time_limits
  /\ rollouts.rollout_steps = 2
  /\ rollouts.time_limit_masks[1][0] = 0
  /\ rollouts.time_limit_masks[2][0] = 1
  /\ rollouts.done_masks[2][0] = 1
  /\ rollouts.returns[0][0] = rollouts.value_preds[0][0]
  /\ rollouts.returns[1][0] # rollouts.value_preds[1][0]
  /\ rollouts.returns[1][0] # rollouts.rewards[1][0]

----------------------------------------------------------------------------
(* Claims about the generators and update, checked under SpecGen. *)

BatchSize == NumProcesses(rollouts) * NumSteps(rollouts)

\* The minibatch size b of the feed-forward generator in progress: given,
\* or floor(T * N / num_minibatches).
MinibatchSize ==
  IF gen.minibatch_size # <<>> THEN gen.minibatch_size[1]
  ELSE BatchSize \div gen.num_minibatches[1]

\* The fields of minibatch mb at position p are those of the buffer at
\* step t of environment n.
TakenAt(mb, p, t, n) ==
  /\ mb.obs_batch[p] = rollouts.obs[t][n]
  /\ mb.actions_batch[p] = rollouts.actions[t][n]
  /\ mb.value_preds_batch[p] = rollouts.value_preds[t][n]
  /\ mb.return_batch[p] = rollouts.returns[t][n]
  /\ mb.masks_batch[p] = rollouts.done_masks[t][n]
  /\ mb.old_action_log_probs_batch[p] = rollouts.action_log_probs[t][n]
  /\ mb.adv_targ[p] = Advantages(rollouts)[t][n]

\* Every field of minibatch mb has exactly the positions 0..len-1.
FieldsOfLength(mb, len) ==
  /\ DOMAIN mb.obs_batch = 0 .. len - 1
  /\ DOMAIN mb.actions_batch = 0 .. len - 1
  /\ DOMAIN mb.value_preds_batch = 0 .. len - 1
  /\ DOMAIN mb.return_batch = 0 .. len - 1
  /\ DOMAIN mb.masks_batch = 0 .. len - 1
  /\ DOMAIN mb.old_action_log_probs_batch = 0 .. len - 1
  /\ DOMAIN mb.adv_targ = 0 .. len - 1

\* No index is drawn twice in the generator's call.
NoRepeats ==
  \A k1, k2 \in 1 .. Len(gen.drawn) :
    \A p1 \in DOMAIN gen.drawn[k1] : \A p2 \in DOMAIN gen.drawn[k2] :
      gen.drawn[k1][p1] = gen.drawn[k2][p2] => (k1 = k2 /\ p1 = p2)

\* C4 as stated: recurrent_generator fails, without yielding a minibatch,
\* whenever N < num_minibatches or N is not divisible by num_minibatches.
C4_RecurrentRejectsBadSplit ==
  (gen.status \in {"running", "exhausted", "failed"} /\ gen.kind = "recurrent"
     /\ (NumProcesses(rollouts) < gen.num_minibatches[1]
         \/ NumProcesses(rollouts) % gen.num_minibatches[1] # 0)) =>
    (gen.status = "failed" /\ gen.yielded = <<>>)

\* The precondition of the generator that update uses.
GeneratorPrecondition(self) ==
  IF self.is_recurrent
  THEN /\ NumProcesses(rollouts) >= self.num_minibatches
       /\ NumProcesses(rollouts) % self.num_minibatches = 0
  ELSE BatchSize >= self.num_minibatches

\* C5 as stated: under the generator's precondition update returns, for
\* each of the three quantities, its sum over the gradient steps performed
\* divided by the number of those steps.
C5_UpdateReturnsMeanOverSteps ==
  (upd.pc = "returned" /\ GeneratorPrecondition(upd.self)) =>
    /\ upd.steps > 0
    /\ upd.result[1].value_loss = Rat(upd.value_loss_epoch, upd.steps)
    /\ upd.result[1].action_loss = Rat(upd.action_loss_epoch, upd.steps)
    /\ upd.result[1].dist_entropy = Rat(upd.dist_entropy_epoch, upd.steps)

\* C6: a call of feed_forward_generator with minibatch size b yields
\* floor(T * N / b) minibatches (never more, and exactly that many once it
\* is exhausted), each of exactly b flat indices in 0..T*N-1, no index
\* twice in the call, and every field of a minibatch is the buffer's at
\* those indices (flat index i is step i div N of environment i mod N).
C6_FeedForwardPartition ==
  (gen.status \in {"running", "exhausted"} /\ gen.kind = "feed_forward") =>
    /\ Len(gen.yielded) <= BatchSize \div MinibatchSize
    /\ gen.status = "exhausted" => Len(gen.yielded) = BatchSize \div MinibatchSize
    /\ Len(gen.drawn) = Len(gen.yielded)
    /\ NoRepeats
    /\ \A k \in 1 .. Len(gen.yielded) :
         /\ DOMAIN gen.drawn[k] = 0 .. MinibatchSize - 1
         /\ FieldsOfLength(gen.yielded[k], MinibatchSize)
         /\ \A p \in DOMAIN gen.drawn[k] :
              /\ gen.drawn[k][p] \in 0 .. BatchSize - 1
              /\ TakenAt(gen.yielded[k], p,
                         gen.drawn[k][p] \div NumProcesses(rollouts),
                         gen.drawn[k][p] % NumProcesses(rollouts))

\* A finished call over four transitions of two steps and two
\* environments that yielded two minibatches of two, from a given size.
C6_Witness ==
  /\ gen.status = "exhausted" /\ gen.kind = "feed_forward"
  /\ gen.minibatch_size = <<2>>
  /\ NumSteps(rollouts) = 2 /\ NumProcesses(rollouts) = 2
  /\ Len(gen.yielded) = 2
  /\ gen.drawn[1][0] = 3

\* C7: when feed_forward_generator derives the size from a count and
\* T * N < num_minibatches it fails with the assertion error and yields
\* nothing, and the update that iterates it has performed no gradient
\* step; when T * N >= num_minibatches it does not fail.
C7_DerivedSizeAssertion ==
  (gen.status \in {"running", "exhausted", "failed"} /\ gen.kind = "feed_forward"
     /\ gen.minibatch_size = <<>>) =>
    IF BatchSize < gen.num_minibatches[1]
    THEN /\ gen.status = "failed" /\ gen.error = "AssertionError"
         /\ gen.yielded = <<>>
         /\ ~Idle => (upd.pc = "raised" /\ upd.steps = 0)
    ELSE /\ gen.status # "failed"
         /\ ~Idle => upd.pc # "raised"

\* An update whose feed-forward generator failed the assertion.
C7_Witness ==
  /\ upd.pc = "raised" /\ ~upd.self.is_recurrent
  /\ gen.status = "failed" /\ gen.error = "AssertionError"
  /\ BatchSize = 2 /\ upd.self.num_minibatches = 3

\* C8: for N divisible by num_minibatches a call of recurrent_generator
\* does not fail and yields num_minibatches minibatches (never more, and
\* exactly that many once it is exhausted); each holds N / num_minibatches
\* distinct environments, no environment is in two minibatches and, once
\* exhausted, every environment is in one; position t * N_group + j of
\* every field is step t of the j-th included environment, for every t in
\* 0..T-1; the recurrent state at position j is slot 0 of that environment.
C8_RecurrentWholeTrajectories ==
  (gen.status \in {"running", "exhausted", "failed"} /\ gen.kind = "recurrent"
     /\ NumProcesses(rollouts) % gen.num_minibatches[1] = 0) =>
    LET group == NumProcesses(rollouts) \div gen.num_minibatches[1]
        T == rollouts.rollout_steps
    IN  /\ gen.status # "failed"
        /\ Len(gen.yielded) <= gen.num_minibatches[1]
        /\ gen.status = "exhausted" =>
             /\ Len(gen.yielded) = gen.num_minibatches[1]
             /\ \A n \in Envs(rollouts) :
                  \E k \in 1 .. Len(gen.drawn) : \E j \in DOMAIN gen.drawn[k] :
                    gen.drawn[k][j] = n
        /\ Len(gen.drawn) = Len(gen.yielded)
        /\ NoRepeats
        /\ \A k \in 1 .. Len(gen.yielded) :
             /\ DOMAIN gen.drawn[k] = 0 .. group - 1
             /\ FieldsOfLength(gen.yielded[k], T * group)
             /\ DOMAIN gen.yielded[k].recurrent_hidden_states_batch = 0 .. group - 1
             /\ \A j \in DOMAIN gen.drawn[k] :
                  /\ gen.drawn[k][j] \in Envs(rollouts)
                  /\ gen.yielded[k].recurrent_hidden_states_batch[j] =
                       rollouts.recurrent_hidden_states[0][gen.drawn[k][j]]
                  /\ \A t \in 0 .. T - 1 :
                       TakenAt(gen.yielded[k], t * group + j, t, gen.drawn[k][j])

\* A finished call over two environments of two steps in one minibatch,
\* the second environment first.
C8_Witness ==
  /\ gen.status = "exhausted" /\ gen.kind = "recurrent"
  /\ gen.num_minibatches = <<1>>
  /\ NumSteps(rollouts) = 2 /\ NumProcesses(rollouts) = 2
  /\ Len(gen.yielded) = 1
  /\ gen.drawn[1][0] = 1

----------------------------------------------------------------------------
(* Claims about the buffer's operations, checked under Spec. *)

\* C3 as stated: after after_update, slot 0 of every tensor of T + 1 slots
\* (obs, recurrent_hidden_states, value_preds, returns, done_masks,
\* time_limit_masks) equals its slot T.
C3_AllSlotsCarried ==
  Returned("after_update") =>
    LET T == rollouts.rollout_steps
    IN  /\ rollouts.obs[0] = rollouts.obs[T]
        /\ rollouts.recurrent_hidden_states[0] = rollouts.recurrent_hidden_states[T]
        /\ rollouts.value_preds[0] = rollouts.value_preds[T]
        /\ rollouts.returns[0] = rollouts.returns[T]
        /\ rollouts.done_masks[0] = rollouts.done_masks[T]
        /\ rollouts.time_limit_masks[0] = rollouts.time_limit_masks[T]

\* C3 as amended: after after_update, slot 0 of obs,
\* recurrent_hidden_states, done_masks and time_limit_masks equals that
\* tensor's slot T.
C3_StateSlotsCarried ==
  Returned("after_update") =>
    LET T == rollouts.rollout_steps
    IN  /\ rollouts.obs[0] = rollouts.obs[T]
        /\ rollouts.recurrent_hidden_states[0] = rollouts.recurrent_hidden_states[T]
        /\ rollouts.done_masks[0] = rollouts.done_masks[T]
        /\ rollouts.time_limit_masks[0] = rollouts.time_limit_masks[T]

\* after_update at the end of a two-step rollout whose last step was a
\* time-limit truncation: slot 0 holds what the last insert stored.
C3_Witness ==
  /\ Returned("after_update")
  /\ rollouts.rollout_steps = 2 /\ rollouts.step = 0
  /\ rollouts.obs[0][0] = 3 /\ rollouts.obs[2][0] = 3 /\ rollouts.obs[1][0] = 1
  /\ rollouts.time_limit_masks[0][0] = 0
  /\ rollouts.done_masks[0][0] = 0

\* C12: a second after_update straight after a first one changes nothing:
\* in every state a call of after_update has just left, the buffer that
\* another call of after_update gives is the buffer as it is (slot 0 of obs,
\* recurrent_hidden_states, done_masks and time_limit_masks, every other
\* slot and field, and the cursor).
C12_AfterUpdateIdempotent ==
  Returned("after_update") =>
    LET again == AfterUpdateOf(rollouts)
    IN  /\ again.obs[0] = rollouts.obs[0]
        /\ again.recurrent_hidden_states[0] = rollouts.recurrent_hidden_states[0]
        /\ again.done_masks[0] = rollouts.done_masks[0]
        /\ again.time_limit_masks[0] = rollouts.time_limit_masks[0]
        /\ again.step = rollouts.step
        /\ again = rollouts

\* after_update in the middle of a two-step rollout (cursor 1), after an
\* earlier after_update: the first call has replaced the initial slot 0 by
\* the last slot, a time-limit truncation, and a second call is enabled.
C12_Witness ==
  /\ Returned("after_update")
  /\ rollouts.rollout_steps = 2 /\ rollouts.step = 1
  /\ rollouts.obs[0][0] = 3 /\ rollouts.obs[2][0] = 3
  /\ rollouts.done_masks[0][0] = 0
  /\ rollouts.time_limit_masks[0][0] = 0
  /\ AfterUpdateOf(rollouts).obs[0][0] = 3
  /\ ENABLED AfterUpdate

\* A tensor after a write of row into slot t: that slot holds row, every
\* other slot is as before, and the slots are the same.
WrittenAt(before, after, t, row) ==
  /\ DOMAIN after = DOMAIN before
  /\ after[t] = row
  /\ \A s \in DOMAIN before : s # t => after[s] = before[s]

\* C13: a step that is a call of insert at cursor c stores obs,
\* recurrent_hidden_states, done_masks and time_limit_masks in slot c + 1,
\* actions, action_log_probs, value_preds and rewards in slot c, and sets
\* the cursor to (c + 1) mod T; every other slot of every tensor is as
\* before, slot 0 of the four tensors written at c + 1 included, and
\* returns and rollout_steps are as before.
C13_InsertFrame ==
  [][call'.op = "insert" =>
       LET c == rollouts.step
           x == call'.args
           after == rollouts'
       IN  /\ WrittenAt(rollouts.obs, after.obs, c + 1, x.obs)
           /\ WrittenAt(rollouts.recurrent_hidden_states,
                        after.recurrent_hidden_states, c + 1, x.recurrent_hidden_states)
           /\ WrittenAt(rollouts.done_masks, after.done_masks, c + 1, x.done_masks)
           /\ WrittenAt(rollouts.time_limit_masks, after.time_limit_masks, c + 1,
                        x.time_limit_masks)
           /\ WrittenAt(rollouts.actions, after.actions, c, x.actions)
           /\ WrittenAt(rollouts.action_log_probs, after.action_log_probs, c,
                        x.action_log_probs)
           /\ WrittenAt(rollouts.value_preds, after.value_preds, c, x.value_preds)
           /\ WrittenAt(rollouts.rewards, after.rewards, c, x.rewards)
           /\ after.step = (c + 1) % rollouts.rollout_steps
           /\ after.obs[0] = rollouts.obs[0]
           /\ after.recurrent_hidden_states[0] = rollouts.recurrent_hidden_states[0]
           /\ after.done_masks[0] = rollouts.done_masks[0]
           /\ after.time_limit_masks[0] = rollouts.time_limit_masks[0]
           /\ after.returns = rollouts.returns
           /\ after.rollout_steps = rollouts.rollout_steps
  ]_vars

\* The insert at cursor 1 of a two-step buffer, in a second rollout: it has
\* written slot 2 (obs, masks) and slot 1 (value_preds), the cursor has
\* wrapped to 0, slot 0 still holds what after_update put there, slot 1 of
\* obs the insert before, and returns what compute_returns computed.
C13_Witness ==
  /\ Returned("insert")
  /\ rollouts.rollout_steps = 2 /\ rollouts.step = 0
  /\ call.args.obs[0] = 2
  /\ rollouts.obs[2][0] = 2 /\ rollouts.obs[1][0] = 1 /\ rollouts.obs[0][0] = 3
  /\ rollouts.done_masks[2][0] = 0 /\ rollouts.time_limit_masks[2][0] = 1
  /\ rollouts.time_limit_masks[0][0] = 0
  /\ rollouts.value_preds[1][0] = FromInt(1)
  /\ rollouts.returns[0][0] # FromInt(0)

----------------------------------------------------------------------------
(* The write cursor (self.step) over the buffer's whole interface: insert, *)
(* after_update, compute_returns and the two generators, in any order.     *)
(* call remembers, for the inserts made since the last operation of        *)
(* another kind that changed the buffer, the cursor they started from and  *)
(* how many they were.                                                     *)

\* rollout_steps of the buffers whose cursor is followed.
MaxCursorSteps == 3

\* The longest run of inserts that is counted.
MaxInserts == 7

CursorDims ==
  {d \in (1 .. MaxCursorSteps) \X (1 .. MaxCursorSteps) : d[1] * d[2] <= MaxCursorSteps}

InitCursor ==
  /\ \E d \in CursorDims : rollouts = NewRolloutStorage(d[1], d[2])
  /\ call = [op |-> "__init__"]
  /\ gen = NoGen
  /\ upd = NoUpdate

\* insert, with the run of inserts it belongs to.
InsertCounted ==
  /\ call.op = "insert" => call.inserts < MaxInserts
  /\ rollouts' = InsertInto(rollouts, InsertBatch(1, NumProcesses(rollouts)))
  /\ call' = [op      |-> "insert",
              start   |-> IF call.op = "insert" THEN call.start ELSE rollouts.step,
              inserts |-> IF call.op = "insert" THEN call.inserts + 1 ELSE 1]
  /\ UNCHANGED <<gen, upd>>

\* compute_returns without discounting, which keeps the returns whole numbers.
CursorReturnArgs(N) ==
  [next_value : {NextValue(1, N)},
   use_gae : BOOLEAN,
   gamma : {FromInt(1)},
   gae_lambda : {FromInt(1)},
   use_proper_time_limits : {TRUE}]

ComputeReturnsUndiscounted ==
  \E a \in CursorReturnArgs(NumProcesses(rollouts)) : ComputeReturnsWith(a)

\* The caller lets go of its generator: the end of "for sample in
\* data_generator", or the next epoch's assignment to data_generator.
DropGenerator ==
  /\ gen # NoGen
  /\ gen' = NoGen
  /\ UNCHANGED <<rollouts, call, upd>>

\* As in update, a generator is made, iterated and let go of between two
\* operations that write the buffer; it may be let go of at any point of its
\* iteration, and made in any state of the buffer.
NextCursor ==
  \/ (gen = NoGen /\ InsertCounted)
  \/ (gen = NoGen /\ AfterUpdate)
  \/ (gen = NoGen /\ ComputeReturnsUndiscounted)
  \/ (gen = NoGen /\ CallFeedForwardGenerator)
  \/ (gen = NoGen /\ CallRecurrentGenerator)
  \/ NextMinibatch
  \/ DropGenerator

SpecCursor == InitCursor /\ [][NextCursor]_vars

----------------------------------------------------------------------------
(* Claims about the write cursor, checked under SpecCursor. *)

\* C11: the cursor self.step is in 0 .. T-1 in every reachable state, and
\* after k inserts that started at cursor c it equals (c + k) mod T; in
\* particular it is back at c after T inserts (and after every multiple of T).
C11_CursorCyclic ==
  LET T == rollouts.rollout_steps
  IN  /\ rollouts.step \in 0 .. T - 1
      /\ call.op = "insert" =>
           /\ call.start \in 0 .. T - 1
           /\ rollouts.step = (call.start + call.inserts) % T
           /\ call.inserts % T = 0 => rollouts.step = call.start

\* Exactly T = 3 inserts from cursor 1 (reached after one insert and an
\* after_update) bring the cursor back to 1.
C11_Witness ==
  /\ call.op = "insert"
  /\ rollouts.rollout_steps = 3
  /\ call.start = 1
  /\ call.inserts = 3
  /\ rollouts.step = 1

----------------------------------------------------------------------------
(* The learning-rate schedule of PPO.  In this specification upd holds the *)
(* PPO object (no update is in progress) and call the schedule call that   *)
(* returned last, with the object as it was before the call and the        *)
(* arguments of the call before it.                                        *)

\* total_epochs is 1 .. MaxTotalEpochs, current_epoch 0 .. MaxTotalEpochs.
MaxTotalEpochs == 3

OPT_ACTOR_PARAMS == "params:actor"

OPT_CRITIC_PARAMS == "params:critic"

\* x <= y for rationals (denominators are positive)
RLeq(x, y) == x.n * y.d <= y.n * x.d

\* PPO.__init__, lines 57-74: the fields the schedule reads and writes.
NewPPO(actor_lr, critic_lr, eps) ==
  [initial_actor_lr |-> actor_lr,
   param_groups |-> << [name |-> OPT_ACTOR_PARAMS, lr |-> actor_lr, eps |-> eps],
                       [name |-> OPT_CRITIC_PARAMS, lr |-> critic_lr, eps |-> eps] >>]

\* update_linear_schedule taking the rate to decay from the parameter group
\* instead of from initial_actor_lr.
UpdateLinearScheduleCompounding(self, current_epoch, total_epochs) ==
  [self EXCEPT !.param_groups =
     [i \in DOMAIN self.param_groups |->
        LET param_group == self.param_groups[i]
        IN  IF param_group.name # OPT_ACTOR_PARAMS THEN param_group
            ELSE [param_group EXCEPT !.lr =
                    RSub(param_group.lr,
                         RMul(param_group.lr, Rat(current_epoch, total_epochs)))]]]

\* PPO.update_linear_schedule: the loop over the parameter groups.
UpdateLinearScheduleOf(self, current_epoch, total_epochs) ==
  [self EXCEPT !.param_groups =
     [i \in DOMAIN self.param_groups |->
        LET param_group == self.param_groups[i]
        IN  IF param_group.name # OPT_ACTOR_PARAMS THEN param_group
            ELSE [param_group EXCEPT !.lr =
                    RSub(self.initial_actor_lr,
                         RMul(self.initial_actor_lr,
                              Rat(current_epoch, total_epochs)))]]]

\* Learning rates Adam accepts (it rejects negative ones).
ActorLrs == {FromInt(0), Rat(3, 10000), Rat(1, 100)}

CriticLrs == {Rat(1, 1000), Rat(1, 100)}

ScheduleArgs ==
  [current_epoch : 0 .. MaxTotalEpochs, total_epochs : 1 .. MaxTotalEpochs]

InitSchedule ==
  /\ rollouts = NewRolloutStorage(1, 1)
  /\ call = [op |-> "__init__"]
  /\ gen = NoGen
  /\ \E actor_lr \in ActorLrs, critic_lr \in CriticLrs :
       upd = [pc |-> "idle", self |-> NewPPO(actor_lr, critic_lr, 0)]

UpdateLinearSchedule ==
  /\ Idle
  /\ \E a \in ScheduleArgs :
       /\ upd' = [upd EXCEPT
                    !.self = UpdateLinearScheduleOf(@, a.current_epoch, a.total_epochs)]
       /\ call' = [op     |-> "update_linear_schedule",
                   args   |-> a,
                   before |-> upd.self,
                   prev   |-> IF call.op = "update_linear_schedule"
                              THEN <<call.args>> ELSE <<>>]
  /\ UNCHANGED <<rollouts, gen>>

NextSchedule == UpdateLinearSchedule

SpecSchedule == InitSchedule /\ [][NextSchedule]_vars

----------------------------------------------------------------------------
(* Claims about the schedule, checked under SpecSchedule. *)

\* The parameter group of a PPO object with the given name.
GroupNamed(self, name) ==
  LET i == CHOOSE i \in DOMAIN self.param_groups : self.param_groups[i].name = name
  IN  self.param_groups[i]

\* C14: after update_linear_schedule(current_epoch, total_epochs), whatever
\* schedule calls came before, the actor group's lr is
\* initial_actor_lr * (total_epochs - current_epoch) / total_epochs, which
\* is initial_actor_lr at current_epoch = 0 and 0 at current_epoch =
\* total_epochs, and is not above the lr the call before left if that call
\* had the same total_epochs and no later current_epoch; the critic group
\* and initial_actor_lr are as before the call.
C14_LinearSchedule ==
  Returned("update_linear_schedule") =>
    LET self == upd.self
        e == call.args.current_epoch
        E == call.args.total_epochs
        lr == GroupNamed(self, OPT_ACTOR_PARAMS).lr
        lr0 == self.initial_actor_lr
    IN  /\ lr.n * lr0.d * E = lr0.n * (E - e) * lr.d
        /\ e = 0 => lr = lr0
        /\ e = E => lr = FromInt(0)
        /\ \A p \in {call.prev[i] : i \in DOMAIN call.prev} :
             p.total_epochs = E /\ p.current_epoch <= e =>
               RLeq(lr, GroupNamed(call.before, OPT_ACTOR_PARAMS).lr)
        /\ GroupNamed(self, OPT_CRITIC_PARAMS) =
             GroupNamed(call.before, OPT_CRITIC_PARAMS)
        /\ lr0 = call.before.initial_actor_lr
        /\ Len(self.param_groups) = 2

\* A call at epoch 1 of 3 after a call at epoch 3 of 3: the actor's rate is
\* back from 0 to two thirds of the initial 1/100, the critic's still 1/1000.
C14_Witness ==
  /\ Returned("update_linear_schedule")
  /\ call.args = [current_epoch |-> 1, total_epochs |-> 3]
  /\ call.prev = << [current_epoch |-> 3, total_epochs |-> 3] >>
  /\ GroupNamed(call.before, OPT_ACTOR_PARAMS).lr = FromInt(0)
  /\ upd.self.initial_actor_lr = Rat(1, 100)
  /\ GroupNamed(upd.self, OPT_ACTOR_PARAMS).lr = Rat(1, 150)
  /\ GroupNamed(upd.self, OPT_CRITIC_PARAMS).lr = Rat(1, 1000)

----------------------------------------------------------------------------
(* The value loss of one minibatch (PPO.update, lines 155-165), as a       *)
(* function of the PPO object, the new value estimates and the minibatch.  *)
(* Batches are functions over 0 .. B-1.  In this specification upd is the  *)
(* update at the point where the forward pass has given values, and then   *)
(* where value_loss has been computed.                                     *)

\* The minibatches tried have 1 .. MaxLossBatch elements.
MaxLossBatch == 2

RMin(x, y) == IF RLeq(x, y) THEN x ELSE y

RMax(x, y) == IF RLeq(x, y) THEN y ELSE x

\* Tensor.clamp(min, max) on one element: the lower bound, then the upper.
Clamp(x, min, max) == RMin(RMax(x, min), max)

Pow2(x) == RMul(x, x)

RNeg(x) == RSub(FromInt(0), x)

\* Tensor.mean() of a batch
RECURSIVE SumBatch(_, _)
SumBatch(x, len) ==
  IF len = 0 THEN FromInt(0) ELSE RAdd(SumBatch(x, len - 1), x[len - 1])

Mean(x) == RDivInt(SumBatch(x, Cardinality(DOMAIN x)), Cardinality(DOMAIN x))

\* ValueLossOf with the clamp applied to values instead of to
\* values - value_preds_batch.
ValueLossClampingValues(self, values, value_preds_batch, return_batch) ==
  IF self.use_clipped_value_loss
  THEN LET value_pred_clipped ==
             [i \in DOMAIN values |->
                RAdd(value_preds_batch[i],
                     Clamp(values[i], RNeg(self.clip_param), self.clip_param))]
           value_losses ==
             [i \in DOMAIN values |-> Pow2(RSub(values[i], return_batch[i]))]
           value_losses_clipped ==
             [i \in DOMAIN values |-> Pow2(RSub(value_pred_clipped[i], return_batch[i]))]
       IN  RMul(Rat(1, 2),
                Mean([i \in DOMAIN values |->
                        RMax(value_losses[i], value_losses_clipped[i])]))
  ELSE RMul(Rat(1, 2),
            Mean([i \in DOMAIN values |-> Pow2(RSub(return_batch[i], values[i]))]))

\* PPO.update, lines 155-165
ValueLossOf(self, values, value_preds_batch, return_batch) ==
  IF self.use_clipped_value_loss
  THEN LET value_pred_clipped ==
             [i \in DOMAIN values |->
                RAdd(value_preds_batch[i],
                     Clamp(RSub(values[i], value_preds_batch[i]),
                           RNeg(self.clip_param), self.clip_param))]
           value_losses ==
             [i \in DOMAIN values |-> Pow2(RSub(values[i], return_batch[i]))]
           value_losses_clipped ==
             [i \in DOMAIN values |-> Pow2(RSub(value_pred_clipped[i], return_batch[i]))]
       IN  RMul(Rat(1, 2),
                Mean([i \in DOMAIN values |->
                        RMax(value_losses[i], value_losses_clipped[i])]))
  ELSE RMul(Rat(1, 2),
            Mean([i \in DOMAIN values |-> Pow2(RSub(return_batch[i], values[i]))]))

\* What the value head and the buffer can hold, and the clip parameters.
LossValues == {FromInt(-1), Rat(1, 2), FromInt(2)}

LossReturns == {FromInt(0), FromInt(3)}

ClipParams == {FromInt(0), Rat(1, 5), FromInt(1)}

LossBatches(vals) ==
  UNION {[0 .. len - 1 -> vals] : len \in 1 .. MaxLossBatch}

InitLoss ==
  /\ rollouts = NewRolloutStorage(1, 1)
  /\ call = [op |-> "update"]
  /\ gen = NoGen
  /\ \E use_clipped_value_loss \in BOOLEAN, clip_param \in ClipParams,
        values \in LossBatches(LossValues),
        value_preds_batch \in LossBatches(LossValues),
        return_batch \in LossBatches(LossReturns) :
       /\ DOMAIN values = DOMAIN value_preds_batch
       /\ DOMAIN values = DOMAIN return_batch
       /\ upd = [pc                |-> "evaluated",
                 self              |-> [use_clipped_value_loss |-> use_clipped_value_loss,
                                        clip_param |-> clip_param],
                 values            |-> values,
                 value_preds_batch |-> value_preds_batch,
                 return_batch      |-> return_batch,
                 value_loss        |-> <<>>]

ComputeValueLoss ==
  /\ upd.pc = "evaluated"
  /\ upd' = [upd EXCEPT
               !.pc = "value_loss",
               !.value_loss = <<ValueLossOf(upd.self, upd.values,
                                            upd.value_preds_batch, upd.return_batch)>>]
  /\ UNCHANGED <<rollouts, call, gen>>

NextLoss == ComputeValueLoss

SpecLoss == InitLoss /\ [][NextLoss]_vars

----------------------------------------------------------------------------
(* Claims about the value loss, checked under SpecLoss. *)

\* The sum over the batch of (return - value)^2.
RECURSIVE SquaredErrors(_, _, _)
SquaredErrors(values, return_batch, len) ==
  IF len = 0 THEN FromInt(0)
  ELSE RAdd(SquaredErrors(values, return_batch, len - 1),
            RMul(RSub(return_batch[len - 1], values[len - 1]),
                 RSub(return_batch[len - 1], values[len - 1])))

\* C15: when value_preds_batch equals values element by element, the value
\* loss computed is 0.5 * mean((return_batch - values)^2) whether
\* use_clipped_value_loss is set or not, and it is the value loss that the
\* same PPO with use_clipped_value_loss toggled computes, for every return
\* batch and clip_param >= 0 tried.
C15_ClippedEqualsUnclipped ==
  (/\ upd.pc = "value_loss"
   /\ upd.value_preds_batch = upd.values
   /\ RLeq(FromInt(0), upd.self.clip_param)) =>
    LET B == Cardinality(DOMAIN upd.values)
        toggled == [upd.self EXCEPT !.use_clipped_value_loss = ~@]
    IN  /\ RMul(upd.value_loss[1], FromInt(2 * B)) =
             SquaredErrors(upd.values, upd.return_batch, B)
        /\ upd.value_loss[1] =
             ValueLossOf(toggled, upd.values, upd.value_preds_batch, upd.return_batch)

\* The clipped loss of a two-element minibatch whose old and new value
\* estimates are both (-1, 2), against returns (0, 3), with clip_param 1/5:
\* 0.5 * (1 + 1) / 2 = 1/2.
C15_Witness ==
  /\ upd.pc = "value_loss"
  /\ upd.self.use_clipped_value_loss
  /\ upd.self.clip_param = Rat(1, 5)
  /\ upd.values = (0 :> FromInt(-1)) @@ (1 :> FromInt(2))
  /\ upd.value_preds_batch = upd.values
  /\ upd.return_batch = (0 :> FromInt(0)) @@ (1 :> FromInt(3))
  /\ upd.value_loss = << Rat(1, 2) >>

====
